---- MODULE Spec2Model ----
(***************************************************************************)
(* A model of scripts/fetch_arxiv.py: one run of main (configuration,      *)
(* a single GET, the Atom parse, the primary and the secondary write, the  *)
(* fallback handler) against a file system, a clock and a network whose    *)
(* answer is fixed when the run starts.                                    *)
(*                                                                         *)
(* Python strings are sequences of one-character strings.  A Python value  *)
(* that may be None is a record [t, v]: PyStr(s) or None.                  *)
(***************************************************************************)
EXTENDS Integers, Sequences, FiniteSets, TLC

VARIABLES pc, argv, env, query, max_results, response, requests, papers,
          err, dirs, fs, fs0, clock, wlog, faults

vars == <<pc, argv, env, query, max_results, response, requests, papers,
          err, dirs, fs, fs0, clock, wlog, faults>>

---------------------------------------------------------------------------
(* Bounds of the model *)

MaxClock == 3

MaxEntries == 2

MaxAuthors == 2

MaxChunks == 3

---------------------------------------------------------------------------
(* Python values *)

None == [t |-> "None", v |-> <<>>]

PyStr(s) == [t |-> "str", v |-> s]

\* Python truthiness of an optional string: None and '' are falsy.
Truthy(x) == x.t = "str" /\ x.v # <<>>

SeqsUpTo(S, n) == UNION {[1..k -> S] : k \in 0..n}

RECURSIVE Concat(_)
Concat(ss) == IF ss = <<>> THEN <<>> ELSE Head(ss) \o Concat(Tail(ss))

---------------------------------------------------------------------------
(* String operations the script uses *)

IsSpace(c) == c \in {" ", "\n", "\t"}

RECURSIVE LStrip(_)
LStrip(s) == IF s # <<>> /\ IsSpace(Head(s)) THEN LStrip(Tail(s)) ELSE s

RECURSIVE RStrip(_)
RStrip(s) ==
    IF s # <<>> /\ IsSpace(s[Len(s)]) THEN RStrip(SubSeq(s, 1, Len(s) - 1)) ELSE s

\* str.strip()
Strip(s) == RStrip(LStrip(s))

StartsWith(s, p) == Len(s) >= Len(p) /\ SubSeq(s, 1, Len(p)) = p

\* str.endswith(p)
EndsWith(s, p) == Len(s) >= Len(p) /\ SubSeq(s, Len(s) - Len(p) + 1, Len(s)) = p

\* str.replace(old, new): leftmost non-overlapping occurrences, old non-empty.
RECURSIVE Replace(_, _, _)
Replace(s, old, new) ==
    IF Len(s) < Len(old) THEN s
    ELSE IF StartsWith(s, old)
         THEN new \o Replace(SubSeq(s, Len(old) + 1, Len(s)), old, new)
         ELSE <<Head(s)>> \o Replace(Tail(s), old, new)

Digits == <<"0", "1", "2", "3", "4", "5", "6", "7", "8", "9">>

DigitVal(c) == (CHOOSE i \in 1..10 : Digits[i] = c) - 1

\* int(s) for a string of decimal digits
RECURSIVE ParseInt(_)
ParseInt(s) ==
    IF s = <<>> THEN 0
    ELSE 10 * ParseInt(SubSeq(s, 1, Len(s) - 1)) + DigitVal(s[Len(s)])

\* str(n) of a natural number, as the f-string of the URL formats it
RECURSIVE IntToStr(_)
IntToStr(n) ==
    IF n < 10 THEN <<Digits[n + 1]>>
    ELSE IntToStr(n \div 10) \o <<Digits[(n % 10) + 1]>>

\* urllib.parse.quote on one character: letters, digits and "_.-~/" are kept
QuoteChar(c) ==
    IF c = " " THEN <<"%", "2", "0">>
    ELSE IF c = ":" THEN <<"%", "3", "A">>
    ELSE IF c = "\n" THEN <<"%", "0", "A">>
    ELSE <<c>>

RECURSIVE Quote(_)
Quote(s) == IF s = <<>> THEN <<>> ELSE QuoteChar(Head(s)) \o Quote(Tail(s))

---------------------------------------------------------------------------
(* The Atom document: entry nodes and their children *)

\* entry.find(...) found nothing
Missing == [present |-> FALSE, text |-> None]

\* an element whose .text is txt (None for <x/> and <x></x>)
Elem(txt) == [present |-> TRUE, text |-> txt]

Entry(i, t, s, u, a) ==
    [id |-> i, title |-> t, summary |-> s, updated |-> u, author |-> a]

ABS == <<"/", "a", "b", "s", "/">>

PDF == <<"/", "p", "d", "f", "/">>

DOTPDF == <<".", "p", "d", "f">>

_text(el) ==
    IF el.present /\ Truthy(el.text)
    THEN PyStr(Replace(Strip(el.text.v), <<"\n">>, <<" ">>))
    ELSE PyStr(<<>>)

\* [a.find('name').text for a in entry.findall('author') if a.find('name') is not None]
RECURSIVE AuthorNames(_)
AuthorNames(as) ==
    IF as = <<>> THEN <<>>
    ELSE IF Head(as).name.present
         THEN <<Head(as).name.text>> \o AuthorNames(Tail(as))
         ELSE AuthorNames(Tail(as))

\* DerivePdf without the test for an empty link (a variant the link property must tell apart)
DerivePdfNoGuard(id_url) ==
    LET pdf == Replace(id_url, ABS, PDF)
    IN  IF ~EndsWith(pdf, DOTPDF) THEN pdf \o DOTPDF ELSE pdf

\* lines 58-60
DerivePdf(id_url) ==
    LET pdf == Replace(id_url, ABS, PDF)
    IN  IF pdf # <<>> /\ ~EndsWith(pdf, DOTPDF) THEN pdf \o DOTPDF ELSE pdf

\* the body of the loop over the entry nodes
ParseEntry(entry) ==
    LET id_url == _text(entry.id)
    IN  [id      |-> id_url,
         title   |-> _text(entry.title),
         summary |-> _text(entry.summary),
         authors |-> AuthorNames(entry.author),
         updated |-> _text(entry.updated),
         pdf     |-> PyStr(DerivePdf(id_url.v))]

\* papers, for the entry nodes of a well-formed document
ParseEntries(doc) == [i \in 1..Len(doc) |-> ParseEntry(doc[i])]

\* the request fetch builds and sends
BuildRequest(q, n) ==
    [search_query |-> Quote(q),
     start        |-> <<"0">>,
     max_results  |-> IntToStr(n),
     sortBy       |-> "lastUpdatedDate",
     sortOrder    |-> "descending",
     timeout      |-> 30]

---------------------------------------------------------------------------
(* Paths: a path is the sequence of its "/"-separated components *)

DefaultOut == <<"docs", "arxiv_data.json">>

RootCopy == <<"arxiv_data.json">>

\* os.path.dirname of a relative path
DirName(p) == SubSeq(p, 1, Len(p) - 1)

\* out_path.startswith('docs/')
UnderDocs(p) == Len(p) >= 2 /\ p[1] = "docs"

\* the directories makedirs creates for d, up to depth k
Prefixes(d, k) == {SubSeq(d, 1, j) : j \in 1..k}

\* open(path, 'w') finds the directory of path
ParentExists(p, ds) == DirName(p) = <<>> \/ DirName(p) \in ds

---------------------------------------------------------------------------
(* Configuration *)

DefaultQuery ==
    <<"a", "l", "l", ":", "m", "a", "c", "h", "i", "n", "e", " ",
      "l", "e", "a", "r", "n", "i", "n", "g">>

DefaultMax == 20

ArgsMax(av) == IF av.max.given THEN av.max.n ELSE DefaultMax

ArgsOut(av) == IF av.out.given THEN av.out.p ELSE DefaultOut

\* ResolveQuery with the environment consulted before the argument (a variant)
ResolveQueryEnvFirst(arg_query, env_query) ==
    IF Truthy(env_query) THEN env_query.v
    ELSE IF Truthy(arg_query) THEN arg_query.v
    ELSE DefaultQuery

\* line 81: args.query or os.environ.get('ARXIV_QUERY') or 'all:machine learning'
ResolveQuery(arg_query, env_query) ==
    IF Truthy(arg_query) THEN arg_query.v
    ELSE IF Truthy(env_query) THEN env_query.v
    ELSE DefaultQuery

\* line 82: int(os.environ.get('MAX_RESULTS', args.max))
ResolveMax(arg_max, env_max) ==
    IF env_max.t = "str" THEN ParseInt(env_max.v) ELSE arg_max

---------------------------------------------------------------------------
(* Files *)

\* a file's content: the JSON object written, or no file, or a truncated one
File(k, q, t, e, ps) ==
    [kind |-> k, query |-> q, fetched_at |-> t, error |-> e, papers |-> ps]

Absent == File("absent", <<>>, 0, "", <<>>)

\* what open(path, 'w') leaves when the dump fails after the open
Partial == File("partial", <<>>, 0, "", <<>>)

\* a file an earlier run left behind
OldFile == File("result", <<"o", "l", "d">>, 0, "", <<>>)

\* line 66: the object write_output dumps
ResultSet(q, now, ps) == File("result", q, now, "", ps)

\* line 103: the object the handler dumps
FallbackResult(q, now, msg) == File("fallback", q, now, msg, <<>>)

\* lines 65-68, the write succeeding
write_output(path, q, ps) == [fs EXCEPT ![path] = ResultSet(q, clock, ps)]

\* open(path, 'w') raised (the file is as it was), or the dump raised after it
FailedWrite(path, mode) ==
    IF mode = "open" THEN fs ELSE [fs EXCEPT ![path] = Partial]

WriteModes == {"open", "dump"}

Logged(path, phase, ok) ==
    Append(wlog, [path |-> path, phase |-> phase, ok |-> ok, at |-> clock])

---------------------------------------------------------------------------
(* Exceptions *)

NoErr == [raised |-> FALSE, at |-> "", msg |-> ""]

Raised(at, msg) == [raised |-> TRUE, at |-> at, msg |-> msg]

FetchFailures == {"URLError", "timeout", "HTTPError", "ParseError"}

\* str(e) of the exception fetch raises
ErrMsg(kind) ==
    CASE kind = "URLError"   -> "<urlopen error [Errno 111] Connection refused>"
      [] kind = "timeout"    -> "timed out"
      [] kind = "HTTPError"  -> "HTTP Error 503: Service Unavailable"
      [] kind = "ParseError" -> "syntax error: line 1, column 0"
      [] OTHER               -> "[Errno 28] No space left on device"

---------------------------------------------------------------------------
(* The inputs of a run *)

ArgQueries == {None, PyStr(<<>>), PyStr(<<"c", "a", "t", ":", "c", "s">>)}

EnvQueries == {None, PyStr(<<>>), PyStr(<<"a", "l", "l", ":", "a", " ", "b">>)}

ArgMaxes == {[given |-> FALSE, n |-> 0], [given |-> TRUE, n |-> 5]}

EnvMaxes == {None, PyStr(<<"5", "0">>)}

ExplicitOuts ==
    {<<"docs", "new", "a.json">>, <<"out", "a.json">>, <<"a.json">>, RootCopy}

ArgOuts ==
    {[given |-> FALSE, p |-> <<>>]} \cup {[given |-> TRUE, p |-> p] : p \in ExplicitOuts}

AllPaths == ExplicitOuts \cup {DefaultOut, RootCopy}

DirSets == {{}, {<<"docs">>}, {<<"docs">>, <<"docs", "new">>, <<"out">>}}

TitleNode == Elem(PyStr(<<" ", "T", "\n", "x", " ">>))

EntryA ==
    Entry(Elem(PyStr(<<"h">> \o ABS \o <<"1">>)), TitleNode, Missing, Elem(None),
          <<[name |-> Elem(PyStr(<<"A">>))]>>)

EntryB == Entry(Missing, Missing, TitleNode, TitleNode, <<[name |-> Missing]>>)

MainDocs == {<<>>, <<EntryA, EntryB>>}

Responses ==
    {[kind |-> k, doc |-> <<>>] : k \in FetchFailures}
        \cup {[kind |-> "ok", doc |-> d] : d \in MainDocs}

Terminal == pc \in {"returned", "raised"}

out_path == ArgsOut(argv)

---------------------------------------------------------------------------
(* A run of main *)

Init ==
    /\ pc = "resolve"
    /\ argv \in [query : ArgQueries, max : ArgMaxes, out : ArgOuts]
    /\ env \in [ARXIV_QUERY : EnvQueries, MAX_RESULTS : EnvMaxes]
    /\ query = <<>>
    /\ max_results = 0
    /\ response \in Responses
    /\ requests = <<>>
    /\ papers = <<>>
    /\ err = NoErr
    /\ dirs \in DirSets
    /\ \E r \in {Absent, OldFile}, o \in {Absent, OldFile} :
          fs = [p \in AllPaths |->
                   IF p = RootCopy THEN r
                   ELSE IF p = ArgsOut(argv) /\ ParentExists(p, dirs) THEN o
                   ELSE Absent]
    /\ fs0 = fs
    /\ clock = 1
    /\ wlog = <<>>
    /\ faults = 0

\* lines 72-84
ResolveConfig ==
    /\ pc = "resolve"
    /\ query' = ResolveQuery(argv.query, env.ARXIV_QUERY)
    /\ max_results' = ResolveMax(ArgsMax(argv), env.MAX_RESULTS)
    /\ pc' = "fetch"
    /\ UNCHANGED <<argv, env, response, requests, papers, err, dirs, fs, fs0,
                   clock, wlog, faults>>

\* line 86, fetch returning: lines 35-62
FetchOK ==
    /\ pc = "fetch"
    /\ response.kind = "ok"
    /\ requests' = Append(requests, BuildRequest(query, max_results))
    /\ papers' = ParseEntries(response.doc)
    /\ pc' = "makedirs"
    /\ UNCHANGED <<argv, env, query, max_results, response, err, dirs, fs, fs0,
                   clock, wlog, faults>>

\* FetchFail with one retry of the request (a variant)
FetchFailRetry ==
    /\ pc = "fetch"
    /\ response.kind \in FetchFailures
    /\ requests' = Append(requests, BuildRequest(query, max_results))
    /\ IF Len(requests) = 0
       THEN pc' = "fetch" /\ err' = err
       ELSE pc' = "except" /\ err' = Raised("fetch", ErrMsg(response.kind))
    /\ UNCHANGED <<argv, env, query, max_results, response, papers, dirs, fs,
                   fs0, clock, wlog, faults>>

\* line 86, fetch raising (urlopen, line 45, or ET.fromstring, line 47)
FetchFail ==
    /\ pc = "fetch"
    /\ response.kind \in FetchFailures
    /\ requests' = Append(requests, BuildRequest(query, max_results))
    /\ err' = Raised("fetch", ErrMsg(response.kind))
    /\ pc' = "except"
    /\ UNCHANGED <<argv, env, query, max_results, response, papers, dirs, fs,
                   fs0, clock, wlog, faults>>

\* lines 88-92, makedirs returning (or skipped: the path has no directory)
MakeDirsOK ==
    /\ pc = "makedirs"
    /\ dirs' = dirs \cup Prefixes(DirName(out_path), Len(DirName(out_path)))
    /\ pc' = "write_primary"
    /\ UNCHANGED <<argv, env, query, max_results, response, requests, papers,
                   err, fs, fs0, clock, wlog, faults>>

\* lines 88-92, makedirs raising after it created k of the directories
MakeDirsFail ==
    /\ pc = "makedirs"
    /\ DirName(out_path) # <<>>
    /\ DirName(out_path) \notin dirs
    /\ \E k \in 0..(Len(DirName(out_path)) - 1) :
          dirs' = dirs \cup Prefixes(DirName(out_path), k)
    /\ err' = Raised("makedirs", ErrMsg("OSError"))
    /\ faults' = faults + 1
    /\ pc' = "except"
    /\ UNCHANGED <<argv, env, query, max_results, response, requests, papers,
                   fs, fs0, clock, wlog>>

\* line 93, write_output returning
WritePrimaryOK ==
    /\ pc = "write_primary"
    /\ fs' = write_output(out_path, query, papers)
    /\ wlog' = Logged(out_path, "primary", TRUE)
    /\ pc' = "write_secondary"
    /\ UNCHANGED <<argv, env, query, max_results, response, requests, papers,
                   err, dirs, fs0, clock, faults>>

\* WritePrimaryFail with the failure leaving main uncaught (a variant)
WritePrimaryFailPropagates ==
    /\ pc = "write_primary"
    /\ \E mode \in WriteModes : fs' = FailedWrite(out_path, mode)
    /\ wlog' = Logged(out_path, "primary", FALSE)
    /\ err' = Raised("write", ErrMsg("OSError"))
    /\ faults' = faults + 1
    /\ pc' = "raised"
    /\ UNCHANGED <<argv, env, query, max_results, response, requests, papers,
                   dirs, fs0, clock>>

\* line 93, write_output raising: the handler of line 101 catches it
WritePrimaryFail ==
    /\ pc = "write_primary"
    /\ \E mode \in WriteModes : fs' = FailedWrite(out_path, mode)
    /\ wlog' = Logged(out_path, "primary", FALSE)
    /\ err' = Raised("write", ErrMsg("OSError"))
    /\ faults' = faults + 1
    /\ pc' = "except"
    /\ UNCHANGED <<argv, env, query, max_results, response, requests, papers,
                   dirs, fs0, clock>>

\* lines 95-100, the copy written
SecondaryOK ==
    /\ pc = "write_secondary"
    /\ UnderDocs(out_path)
    /\ fs' = write_output(RootCopy, query, papers)
    /\ wlog' = Logged(RootCopy, "secondary", TRUE)
    /\ pc' = "returned"
    /\ UNCHANGED <<argv, env, query, max_results, response, requests, papers,
                   err, dirs, fs0, clock, faults>>

\* SecondaryFail with the failure reaching the handler of line 101 (a variant)
SecondaryFailPropagates ==
    /\ pc = "write_secondary"
    /\ UnderDocs(out_path)
    /\ \E mode \in WriteModes : fs' = FailedWrite(RootCopy, mode)
    /\ wlog' = Logged(RootCopy, "secondary", FALSE)
    /\ err' = Raised("write", ErrMsg("OSError"))
    /\ faults' = faults + 1
    /\ pc' = "except"
    /\ UNCHANGED <<argv, env, query, max_results, response, requests, papers,
                   dirs, fs0, clock>>

\* lines 95-100, the copy's write raising: except Exception: pass
SecondaryFail ==
    /\ pc = "write_secondary"
    /\ UnderDocs(out_path)
    /\ \E mode \in WriteModes : fs' = FailedWrite(RootCopy, mode)
    /\ wlog' = Logged(RootCopy, "secondary", FALSE)
    /\ faults' = faults + 1
    /\ pc' = "returned"
    /\ UNCHANGED <<argv, env, query, max_results, response, requests, papers,
                   err, dirs, fs0, clock>>

\* lines 95-100, the path is not under docs/
SecondarySkip ==
    /\ pc = "write_secondary"
    /\ ~UnderDocs(out_path)
    /\ pc' = "returned"
    /\ UNCHANGED <<argv, env, query, max_results, response, requests, papers,
                   err, dirs, fs, fs0, clock, wlog, faults>>

\* FallbackOK writing the root-level copy as well (a variant)
FallbackOKAlsoCopies ==
    /\ pc = "except"
    /\ ParentExists(out_path, dirs)
    /\ fs' = [fs EXCEPT ![out_path] = FallbackResult(query, clock, err.msg),
                        ![RootCopy] = FallbackResult(query, clock, err.msg)]
    /\ wlog' = Logged(out_path, "fallback", TRUE)
    /\ pc' = "returned"
    /\ UNCHANGED <<argv, env, query, max_results, response, requests, papers,
                   err, dirs, fs0, clock, faults>>

\* lines 101-106, the fallback written
FallbackOK ==
    /\ pc = "except"
    /\ ParentExists(out_path, dirs)
    /\ fs' = [fs EXCEPT ![out_path] = FallbackResult(query, clock, err.msg)]
    /\ wlog' = Logged(out_path, "fallback", TRUE)
    /\ pc' = "returned"
    /\ UNCHANGED <<argv, env, query, max_results, response, requests, papers,
                   err, dirs, fs0, clock, faults>>

\* lines 104-105 raising inside the handler: nothing catches it.  The open
\* raises when the directory of the path does not exist (the handler never
\* creates it), or the file system fails the open or the dump.
FallbackFail ==
    /\ pc = "except"
    /\ \/ /\ ~ParentExists(out_path, dirs)
          /\ fs' = fs
          /\ faults' = faults
       \/ /\ ParentExists(out_path, dirs)
          /\ \E mode \in WriteModes : fs' = FailedWrite(out_path, mode)
          /\ faults' = faults + 1
    /\ wlog' = Logged(out_path, "fallback", FALSE)
    /\ pc' = "raised"
    /\ UNCHANGED <<argv, env, query, max_results, response, requests, papers,
                   err, dirs, fs0, clock>>

\* time.time() moves on while the run is under way
Tick ==
    /\ ~Terminal
    /\ clock < MaxClock
    /\ clock' = clock + 1
    /\ UNCHANGED <<pc, argv, env, query, max_results, response, requests,
                   papers, err, dirs, fs, fs0, wlog, faults>>

Next ==
    \/ ResolveConfig
    \/ FetchOK
    \/ FetchFail
    \/ MakeDirsOK
    \/ MakeDirsFail
    \/ WritePrimaryOK
    \/ WritePrimaryFail
    \/ SecondaryOK
    \/ SecondaryFail
    \/ SecondarySkip
    \/ FallbackOK
    \/ FallbackFail
    \/ Tick

Spec == Init /\ [][Next]_vars

---------------------------------------------------------------------------
(* fetch alone: the parse of every document of a bounded set *)

Chunks == {ABS, DOTPDF, <<"h">>, <<"/">>, <<"a", "b", "s", "/">>, <<" ">>}

\* identifier texts: up to MaxChunks chunks in a row
IdTexts == {Concat(c) : c \in SeqsUpTo(Chunks, MaxChunks)}

TextNodes == {Missing, Elem(None), Elem(PyStr(<<" ", "\n">>)), TitleNode}

AuthorNodes ==
    {[name |-> n] : n \in {Missing, Elem(None), Elem(PyStr(<<"A", " ">>))}}

EntryNodes ==
    {Entry(n, n, n, n, <<>>) : n \in TextNodes}
        \cup {Entry(Elem(PyStr(<<"h">> \o ABS \o <<"1">>)), TitleNode, Missing,
                    Elem(None), a) : a \in SeqsUpTo(AuthorNodes, MaxAuthors)}

FetchDocs ==
    SeqsUpTo(EntryNodes, MaxEntries)
        \cup {<<Entry(Elem(PyStr(i)), Missing, Missing, Missing, <<>>)>> : i \in IdTexts}

InitFetch ==
    /\ pc = "fetch"
    /\ argv = [query |-> None, max |-> [given |-> FALSE, n |-> 0],
               out |-> [given |-> FALSE, p |-> <<>>]]
    /\ env = [ARXIV_QUERY |-> None, MAX_RESULTS |-> None]
    /\ query = DefaultQuery
    /\ max_results = DefaultMax
    /\ response \in {[kind |-> "ok", doc |-> d] : d \in FetchDocs}
    /\ requests = <<>>
    /\ papers = <<>>
    /\ err = NoErr
    /\ dirs = {}
    /\ fs = [p \in AllPaths |-> Absent]
    /\ fs0 = fs
    /\ clock = 1
    /\ wlog = <<>>
    /\ faults = 0

NextFetch == FetchOK

SpecFetch == InitFetch /\ [][NextFetch]_vars

---------------------------------------------------------------------------
(* The claims *)

LastWrite == wlog[Len(wlog)]

IsFallbackShape(f) == f.kind = "fallback" /\ f.error # "" /\ f.papers = <<>>

PrimaryFailed == err.raised /\ err.at \in {"makedirs", "write"}

\* C1: every run whose fetch or parse step fails ends, whatever the
\* destination path and whether or not its directories exist, with a
\* FallbackResult (non-empty error, no papers) at the destination and main
\* returning.  Stated for the runs in which the file system itself never
\* fails a call, so that only the path decides.
C1_FallbackAlwaysWritten ==
    (Terminal /\ err.raised /\ err.at = "fetch" /\ faults = 0)
        => (pc = "returned" /\ IsFallbackShape(fs[out_path]))

\* C2, as claimed: a failure of the primary write (makedirs or the write)
\* after a successful fetch propagates out of main, and no FallbackResult is
\* written for it.
C2_PrimaryFailurePropagates ==
    (Terminal /\ PrimaryFailed)
        => (pc = "raised" /\ fs[out_path].kind # "fallback"
            /\ \A i \in 1..Len(wlog) : wlog[i].phase # "fallback")

\* C2, amended: a failure of the primary write after a successful fetch is
\* caught by the handler of main, which attempts the fallback write to the
\* destination path: when that write succeeds main returns with a
\* FallbackResult carrying the error's text at the destination, and a
\* failure leaves main only when the fallback write itself fails.
C2_PrimaryFailureTakesFallback ==
    PrimaryFailed =>
        /\ pc \in {"except", "returned", "raised"}
        /\ Terminal => (LastWrite.phase = "fallback" /\ LastWrite.path = out_path)
        /\ pc = "returned" =>
              (LastWrite.ok /\ IsFallbackShape(fs[out_path])
               /\ fs[out_path].error = err.msg)
        /\ pc = "raised" => ~LastWrite.ok

C2_Witness ==
    /\ pc = "returned"
    /\ err.raised /\ err.at = "write"
    /\ Len(papers) > 0
    /\ IsFallbackShape(fs[out_path])

\* C3: on a successful run the root-level copy is produced exactly when the
\* destination is under docs/, and its content is then identical to the
\* primary file's, also when time advances between the two writes.  Stated
\* for the runs in which no file-system call fails.
C3_SecondaryIdentical ==
    (pc = "returned" /\ ~err.raised /\ faults = 0)
        => /\ (\E i \in 1..Len(wlog) : wlog[i].phase = "secondary" /\ wlog[i].ok)
                <=> UnderDocs(out_path)
           /\ UnderDocs(out_path) => fs[RootCopy] = fs[out_path]

\* C4: a run that takes the fallback path writes the destination path only:
\* no secondary write is attempted and every other file, the root-level copy
\* included, is as it was before the run, also for a destination under docs/.
\* (When the destination is arxiv_data.json itself, that file is the
\* destination and is the one file written.)
C4_FallbackWritesOnlyDestination ==
    err.raised =>
        /\ \A i \in 1..Len(wlog) :
              wlog[i].phase # "secondary" /\ wlog[i].path = out_path
        /\ \A p \in AllPaths \ {out_path} : fs[p] = fs0[p]

C4_Witness ==
    /\ pc = "returned"
    /\ err.raised
    /\ UnderDocs(out_path)
    /\ fs0[RootCopy] = OldFile
    /\ fs[RootCopy] = OldFile
    /\ IsFallbackShape(fs[out_path])

\* C5: when the primary write succeeded and the write of the root-level copy
\* fails, main still ends in the success outcome, no error is raised, and the
\* primary file holds the ResultSet it was written with.
C5_SecondaryFailureSwallowed ==
    (\E i \in 1..Len(wlog) : wlog[i].phase = "secondary" /\ ~wlog[i].ok)
        => /\ pc = "returned"
           /\ ~err.raised
           /\ wlog[1].phase = "primary" /\ wlog[1].ok
           /\ fs[out_path] = ResultSet(query, wlog[1].at, papers)

C5_Witness ==
    /\ pc = "returned"
    /\ Len(wlog) = 2 /\ wlog[2].phase = "secondary" /\ ~wlog[2].ok
    /\ fs[RootCopy] = Partial
    /\ fs[out_path].kind = "result"
    /\ Len(papers) > 0

PaperKeys == {"id", "title", "summary", "authors", "updated", "pdf"}

\* C6: a well-formed document with N entry nodes gives N records in document
\* order, each with the six keys and no null anywhere: every text field is a
\* string and every element of authors is a string.
C6_NoNullFields ==
    pc # "fetch" =>
        /\ Len(papers) = Len(response.doc)
        /\ \A i \in 1..Len(papers) :
              /\ DOMAIN papers[i] = PaperKeys
              /\ papers[i].id = _text(response.doc[i].id)
              /\ \A k \in {"id", "title", "summary", "updated", "pdf"} :
                    papers[i][k].t = "str"
              /\ \A j \in 1..Len(papers[i].authors) :
                    papers[i].authors[j].t = "str"

\* C7: the link of every record is its identifier with /abs/ replaced by
\* /pdf/, followed by .pdf exactly when that does not already end in .pdf;
\* an empty identifier gives an empty link.
C7_PdfLink ==
    pc # "fetch" =>
        \A i \in 1..Len(papers) :
            LET id == papers[i].id.v
                r  == Replace(id, ABS, PDF)
            IN  /\ papers[i].pdf.t = "str"
                /\ papers[i].pdf.v =
                      IF id = <<>> THEN <<>>
                      ELSE IF EndsWith(r, DOTPDF) THEN r
                      ELSE r \o DOTPDF

C7_Witness ==
    /\ pc # "fetch"
    /\ Len(papers) = 1
    /\ papers[1].id.v = <<"h">> \o ABS \o DOTPDF
    /\ papers[1].pdf.v = <<"h">> \o PDF \o DOTPDF

\* C8: the max-results value used is the explicit --max argument when one is
\* given, else MAX_RESULTS when it is set, else 20.
C8_ExplicitMaxWins ==
    pc # "resolve" =>
        LET want == IF argv.max.given THEN argv.max.n
                    ELSE IF env.MAX_RESULTS.t = "str"
                         THEN ParseInt(env.MAX_RESULTS.v)
                         ELSE DefaultMax
        IN  /\ max_results = want
            /\ \A i \in 1..Len(requests) : requests[i].max_results = IntToStr(want)

QueryUsedEverywhere ==
    /\ \A i \in 1..Len(requests) : requests[i].search_query = Quote(query)
    /\ \A i \in 1..Len(wlog) :
          wlog[i].ok => (fs[wlog[i].path].kind \in {"result", "fallback"}
                         /\ fs[wlog[i].path].query = query)

\* C9, as claimed: the query is the --query argument whenever one is given,
\* else ARXIV_QUERY when it is set, else the generic query; it is the query
\* sent and the query recorded in the file written.
C9_GivenQueryWins ==
    pc # "resolve" =>
        /\ query = IF argv.query.t = "str" THEN argv.query.v
                   ELSE IF env.ARXIV_QUERY.t = "str" THEN env.ARXIV_QUERY.v
                   ELSE DefaultQuery
        /\ QueryUsedEverywhere

\* C9, amended: the query is the --query argument whenever a non-empty one
\* is given, else ARXIV_QUERY when it is set and non-empty, else the generic
\* query (an empty string counts as not supplied); it is the query sent,
\* percent-encoded, and the query recorded in the file written.
C9_NonEmptyQueryWins ==
    pc # "resolve" =>
        /\ query = IF argv.query.t = "str" /\ argv.query.v # <<>> THEN argv.query.v
                   ELSE IF env.ARXIV_QUERY.t = "str" /\ env.ARXIV_QUERY.v # <<>>
                        THEN env.ARXIV_QUERY.v
                        ELSE DefaultQuery
        /\ QueryUsedEverywhere

C9_Witness ==
    /\ pc = "returned"
    /\ argv.query = PyStr(<<>>)
    /\ Truthy(env.ARXIV_QUERY)
    /\ query = env.ARXIV_QUERY.v
    /\ Len(requests) = 1
    /\ fs[out_path].kind = "fallback"
    /\ fs[out_path].query = query

\* C10: a run (one whose arguments and environment resolve, so that it
\* reaches the try block of line 85) issues exactly one GET: never a second
\* one, none after a failure or after a write, and from the one attempt the
\* run goes on to the success write or to the fallback write, never back to
\* the request.
C10_SingleRequest ==
    /\ [](/\ Len(requests) <= 1
          /\ pc \notin {"resolve", "fetch"} => Len(requests) = 1
          /\ Terminal =>
                \/ ~err.raised /\ wlog[1].phase = "primary" /\ wlog[1].ok
                \/ err.raised /\ LastWrite.phase = "fallback")
    /\ [][/\ requests' # requests =>
                (pc = "fetch" /\ ~err.raised /\ wlog = <<>> /\ requests = <<>>
                 /\ pc' \in {"makedirs", "except"})
          /\ pc \notin {"resolve", "fetch"} => pc' # "fetch"]_vars

C10_Witness ==
    /\ Terminal
    /\ response.kind = "timeout"
    /\ Len(requests) = 1
    /\ LastWrite.phase = "fallback"

====
